---- MODULE Spec2Model ----
(***************************************************************************)
(* The recurring-alarm scheduler of the student planner: alarm_checker of  *)
(* src/raining2.py (SQLite, one shared connection), of src/hyper5.py       *)
(* (MySQL, one connection per tick) and of the MySQL program in            *)
(* src/autumn.py (no recurrence), with the foreground handlers that share  *)
(* the task store with it; and the schedulers of the early programs,       *)
(* src/winter.py, the first program of src/autumn.py and src/summer.py.    *)
(*                                                                         *)
(* Text values are modelled by their fields: a date string 'YYYY-MM-DD' is *)
(* <<y, m, d>>, a time string 'HH:MM' is <<h, mi>>, the text of a MySQL    *)
(* TIME value 'HH:MM:SS' is <<h, mi, s>>, and the concatenation            *)
(* date || ' ' || time is the concatenation of the two sequences.  The     *)
(* clock counts units of 10 seconds (one time.sleep(10) of raining2.py).   *)
(***************************************************************************)
EXTENDS Integers, Sequences, FiniteSets, TLC

VARIABLES
    variant,     \* which program runs: "raining2", "hyper5", "autumn", or
                 \* an early one: "winter", "autumn0", "summer"
    tasks,       \* rows of table tasks as seen through the connection(s)
    disk,        \* committed rows (what survives conn.close())
    autoinc,     \* MySQL AUTO_INCREMENT counter
    connOpen,    \* raining2: the shared sqlite3 connection is open
    rootAlive,   \* the Tk root has not been destroyed
    stop_event,  \* threading.Event
    fg,          \* foreground: "run", "join" (inside on_quit), "quit"
    ops,         \* number of foreground store operations done
    now,         \* wall clock, in 10-second units since Epoch
    pc,          \* position of the alarm thread
    key,         \* current_key of the running tick
    matches,     \* rows fetched by the due query, not yet iterated
    m,           \* the row of the running loop iteration
    count,       \* result of the duplicate-count query
    handled,     \* handled_this_minute / handled / triggered
    i,           \* raining2: index of the sleep loop
    wake,        \* clock value at which the running time.sleep returns
    late,        \* the clock has advanced while the alarm thread was runnable
    tickAt,      \* clock value at which the latest tick read the clock
    everIds,     \* the ids of all rows the table has held
    popups,      \* popups handed to the root and not dismissed
    held,        \* connections the alarm thread opened and has not closed
    log,         \* history of the alarm thread: the alarm events and what followed
    failed,      \* a tick of the alarm thread was abandoned by an exception
    dIn,         \* date arithmetic check: input date
    dRec,        \* date arithmetic check: recurrence
    dOut         \* date arithmetic check: result of compute_next_date

vars == <<variant, tasks, disk, autoinc, connOpen, rootAlive, stop_event, fg,
          ops, now, pc, key, matches, m, count, handled, i, wake, late,
          tickAt, everIds, popups, held, log, failed, dIn, dRec, dOut>>

bgvars == <<pc, key, matches, m, count, handled, i, wake>>

histvars == <<tickAt, everIds, popups>>

----------------------------------------------------------------------------
(* Bounds of the model *)

\* the clock stops after this many 10-second units
MaxTime == 12
\* due minutes of a recurring series that are followed
MaxAlarms == 4
\* foreground store operations (add, edit, delete) in one run
MaxOps == 1
\* the date arithmetic is checked for the years 2023 .. 2023 + YearSpan
YearSpan == 2

----------------------------------------------------------------------------
(* Calendar arithmetic of datetime.date, as compute_next_date uses it *)

\* None, the result of compute_next_date for a rule that is neither daily nor weekly
None == <<>>
\* the ValueError of strptime on a text that is no date
ValueError == <<"ValueError">>

IsLeap(y) == (y % 4 = 0) /\ ((y % 100 # 0) \/ (y % 400 = 0))

DaysInMonth(y, mo) ==
    IF mo = 2 THEN (IF IsLeap(y) THEN 29 ELSE 28)
    ELSE IF mo \in {4, 6, 9, 11} THEN 30 ELSE 31

\* number of days in the year before the first day of month mo
DaysBeforeMonth(y, mo) ==
    LET tab == <<0, 31, 59, 90, 120, 151, 181, 212, 243, 273, 304, 334>>
    IN  tab[mo] + (IF mo > 2 /\ IsLeap(y) THEN 1 ELSE 0)

\* number of days before January 1st of year y
DaysBeforeYear(y) ==
    LET p == y - 1 IN p * 365 + (p \div 4) - (p \div 100) + (p \div 400)

\* strptime(date_str, "%Y-%m-%d") accepts the text
ValidDate(s) ==
    /\ Len(s) = 3
    /\ s[1] \in 1..9999
    /\ s[2] \in 1..12
    /\ s[3] \in 1..DaysInMonth(s[1], s[2])

\* date.toordinal()
ymd2ord(d) == DaysBeforeYear(d[1]) + DaysBeforeMonth(d[1], d[2]) + d[3]

\* date.fromordinal(n), for 1 <= n
ord2ymd(n) ==
    LET n0   == n - 1
        n400 == n0 \div 146097
        r400 == n0 % 146097
        n100 == r400 \div 36524
        r100 == r400 % 36524
        n4   == r100 \div 1461
        r4   == r100 % 1461
        n1   == r4 \div 365
        r1   == r4 % 365
        year == n400 * 400 + 1 + n100 * 100 + n4 * 4 + n1
    IN  IF n1 = 4 \/ n100 = 4
        THEN <<year - 1, 12, 31>>
        ELSE LET mo == CHOOSE x \in 1..12 :
                          /\ DaysBeforeMonth(year, x) <= r1
                          /\ r1 < DaysBeforeMonth(year, x) + DaysInMonth(year, x)
             IN  <<year, mo, r1 - DaysBeforeMonth(year, mo) + 1>>

\* d + datetime.timedelta(days = n)
DatePlus(d, n) == ord2ymd(ymd2ord(d) + n)


\* datetime.timedelta(days, weeks) in days
timedelta(days, weeks) == days + 7 * weeks

\* compute_next_date with timedelta(days=1) for the weekly rule too
compute_next_date_weekly_as_days(date_str, recurrence) ==
    IF ~ValidDate(date_str) THEN ValueError
    ELSE IF recurrence = "daily" THEN DatePlus(date_str, timedelta(1, 0))
    ELSE IF recurrence = "weekly" THEN DatePlus(date_str, timedelta(1, 0))
    ELSE None

\* raining2.py compute_next_date: date text in, date text (or None) out
compute_next_date(date_str, recurrence) ==
    IF ~ValidDate(date_str) THEN ValueError
    ELSE IF recurrence = "daily" THEN DatePlus(date_str, timedelta(1, 0))
    ELSE IF recurrence = "weekly" THEN DatePlus(date_str, timedelta(0, 1))
    ELSE None

\* hyper5.py compute_next_date: datetime.date in, datetime.date (or None) out
compute_next_date_hyper5(date_obj, recurrence) ==
    IF recurrence = "daily" THEN DatePlus(date_obj, timedelta(1, 0))
    ELSE IF recurrence = "weekly" THEN DatePlus(date_obj, timedelta(0, 1))
    ELSE None

\* a NULL of the recurrence column, which sqlite3 hands over as Python's None
NULL == "<NULL>"

\* str.lower() on the recurrence texts of the model
Lower(s) ==
    CASE s = "Daily"  -> "daily"
      [] s = "DAILY"  -> "daily"
      [] s = "Weekly" -> "weekly"
      [] s = "WEEKLY" -> "weekly"
      [] OTHER        -> s

----------------------------------------------------------------------------
(* The calendar, independently of ordinals: the day after d, and n days on *)

NextDay(d) ==
    IF d[3] < DaysInMonth(d[1], d[2]) THEN <<d[1], d[2], d[3] + 1>>
    ELSE IF d[2] < 12 THEN <<d[1], d[2] + 1, 1>>
    ELSE <<d[1] + 1, 1, 1>>

RECURSIVE AddDays(_, _)
AddDays(d, n) == IF n = 0 THEN d ELSE AddDays(NextDay(d), n - 1)

----------------------------------------------------------------------------
(* The wall clock *)

\* seconds in one unit of the clock: the time.sleep(10) of raining2.py
SecondsPerUnit == 10
UnitsPerMinute == 60 \div SecondsPerUnit
\* the sleeps of a loop that checked every 20 seconds, as the docstring of
\* alarm_checker has it
SleepStepsAsDocumented == 20 \div SecondsPerUnit

\* the sleeps of a loop that slept 50 seconds between two ticks
SleepStepsOfFiftySeconds == 50 \div SecondsPerUnit

\* raining2.py: for i in range(7): ... time.sleep(10)
SleepSteps == 7
SleepShort == 10 \div SecondsPerUnit
\* hyper5.py, autumn.py: time.sleep(60)
SleepLong == 60 \div SecondsPerUnit

\* the run starts on this day, EpochSecond seconds after midnight, at a
\* phase of the minute chosen by Init
EpochDate == <<2024, 2, 29>>
EpochSecond == 23 * 3600 + 59 * 60

\* datetime.datetime.now().strftime("%Y-%m-%d %H:%M") at clock value t
CurrentKey(t) ==
    LET secs == EpochSecond + t * SecondsPerUnit
        d    == DatePlus(EpochDate, secs \div 86400)
        sod  == secs % 86400
    IN  <<d[1], d[2], d[3], sod \div 3600, (sod % 3600) \div 60>>

----------------------------------------------------------------------------
(* The task store *)

Sqlite == variant = "raining2"

Row(id, title, date, time, description, completed, recurrence) ==
    [id |-> id, title |-> title, date |-> date, time |-> time,
     description |-> description, completed |-> completed,
     recurrence |-> recurrence]

NoRow == Row(0, "", <<>>, <<>>, "", 0, "")

\* date || ' ' || time,  CONCAT(date, ' ', time)
DueText(r) == r.date \o r.time

\* text comparison a <= b of two texts given by their fields
RECURSIVE TextLeq(_, _)
TextLeq(a, b) ==
    IF a = <<>> THEN TRUE
    ELSE IF b = <<>> THEN FALSE
    ELSE IF Head(a) # Head(b) THEN Head(a) < Head(b)
    ELSE TextLeq(Tail(a), Tail(b))

\* a query for the rows due at k or before it
DueQueryOrOverdue(S, k) == {r \in S : TextLeq(DueText(r), k)}

\* a query for the rows whose due text begins with k
DueQueryByPrefix(S, k) ==
    {r \in S : /\ Len(DueText(r)) >= Len(k)
               /\ SubSeq(DueText(r), 1, Len(k)) = k}

\* SELECT * FROM tasks WHERE date || ' ' || time = current_key
DueQuery(S, k) == {r \in S : DueText(r) = k}

Ids(S) == {r.id : r \in S}

MaxId(S) == CHOOSE x \in Ids(S) : \A y \in Ids(S) : y <= x

\* cursor.fetchall(): the rows in rowid order
RECURSIVE FetchAll(_)
FetchAll(S) ==
    IF S = {} THEN <<>>
    ELSE LET r == CHOOSE x \in S : \A y \in S : x.id <= y.id
         IN  <<r>> \o FetchAll(S \ {r})

\* the id the store gives a new row: SQLite INTEGER PRIMARY KEY takes the
\* largest rowid plus one, MySQL AUTO_INCREMENT the counter
NewId(S) == IF Sqlite THEN (IF S = {} THEN 1 ELSE MaxId(S) + 1) ELSE autoinc

\* the duplicate count with the date and the time in each other's place
DupCountSwappedParams(S, title, date, time, recurrence) ==
    Cardinality({r \in S : /\ r.title = title
                           /\ r.date = time
                           /\ r.time = date
                           /\ r.recurrence = recurrence})

\* SELECT COUNT(*) FROM tasks WHERE title=? AND date=? AND time=? AND recurrence=?
DupCount(S, title, date, time, recurrence) ==
    Cardinality({r \in S : /\ r.title = title
                           /\ r.date = date
                           /\ r.time = time
                           /\ r.recurrence = recurrence})

RuleDaysOf(recurrence) == IF recurrence = "weekly" THEN 7 ELSE 1

\* a next occurrence for every row, whatever its recurrence
SuccessorDateAlways(r) == DatePlus(r.date, timedelta(1, 0))

\* the test of the recurrence without lower(): only the rule as it is spelt
\* in the form of add_task gets a successor
SuccessorDateExactCase(r) ==
    IF variant \in {"raining2", "hyper5"} /\ r.recurrence \in {"daily", "weekly"}
    THEN DatePlus(r.date, timedelta(RuleDaysOf(r.recurrence), 0))
    ELSE None

\* raining2.py lines 148-150, hyper5.py lines 191-193: the date of the next
\* occurrence, None when the row gets no successor
SuccessorDate(r) ==
    IF variant = "raining2"
    THEN IF r.recurrence \notin {NULL, ""}
            /\ Lower(r.recurrence) \in {"daily", "weekly"}
         THEN compute_next_date(r.date, Lower(r.recurrence))
         ELSE None
    ELSE IF variant = "hyper5"
    THEN IF r.recurrence \in {"daily", "weekly"}
         THEN compute_next_date_hyper5(r.date, r.recurrence)
         ELSE None
    ELSE None

\* a successor row that copies the completed flag of the firing row
SuccessorRowCopyingFlag(S, r, next_date) ==
    Row(NewId(S), r.title, next_date, r.time, r.description, r.completed,
        r.recurrence)

\* a successor row that is not recurring
SuccessorRowNotRecurring(S, r, next_date) ==
    Row(NewId(S), r.title, next_date, r.time, r.description, 0, "none")

\* a successor row without the description of the firing row
SuccessorRowWithoutDescription(S, r, next_date) ==
    Row(NewId(S), r.title, next_date, r.time, "", 0, r.recurrence)

\* the row of INSERT INTO tasks (...) VALUES (?, ?, ?, ?, 0, ?)
SuccessorRow(S, r, next_date) ==
    Row(NewId(S), r.title, next_date, r.time, r.description, 0, r.recurrence)

\* an INSERT that also marks the firing row completed
InsertMarkingDone(S, r, new) ==
    {IF x.id = r.id THEN [x EXCEPT !.completed = 1] ELSE x : x \in S} \cup {new}

\* the store after the alarm thread's INSERT
InsertSuccessor(S, r, new) == S \cup {new}

----------------------------------------------------------------------------
(* History of the alarm thread *)

\* an alarm event: the popup of the fetched row r was scheduled under key k
\* at clock value t.
\* seen holds the store as the duplicate-count query saw it (none when the
\* query did not run), ins the rows the iteration's INSERT added to the store,
\* lost the rows that were in the store before that INSERT and not after it,
\* done whether the iteration ran to its end
Fired(r, k, t) ==
    [m |-> r, key |-> k, at |-> t, seen |-> {}, ins |-> {}, lost |-> {},
     done |-> FALSE]

Last(q) == q[Len(q)]

Firings == 1..Len(log)

----------------------------------------------------------------------------
(* Initial states *)

Variants == {"raining2", "hyper5", "autumn"}

Titles == {"hw"}
AddDates == {<<2024, 2, 29>>, <<2024, 3, 1>>}
AddTimes == {<<23, 59>>}
Recurrences == {"none", "daily", "weekly"}
\* the date and the recurrence of the tasks the user adds: due today with any
\* recurrence, or the next occurrence of today's daily task
AddInputs ==
    ({<<2024, 2, 29>>} \X Recurrences) \cup {<<(<<2024, 3, 1>>), "daily">>}

\* a time of day kept as 'HH:MM' in every program
StoredTimeWithoutSeconds(t) == t

\* the text a time of day is stored as: 'HH:MM' in the TEXT column of
\* raining2.py, 'HH:MM:SS' in the TIME column of hyper5.py and autumn.py
StoredTime(t) == IF Sqlite THEN t ELSE t \o <<0>>

\* the program starts in the first or in the last ten seconds of a minute
StartPhases == {0, UnitsPerMinute - 1}

\* a recurring task of table tasks (autumn.py has no recurrence)
Persisted(id, date, completed) ==
    Row(id, "hw", date, StoredTime(<<23, 59>>), "ch3", completed,
        IF variant = "autumn" THEN "none" ELSE "daily")

\* what the database holds when the program starts: nothing; a task left by
\* an earlier run, due in the minute the program starts in; that task and
\* the next occurrence an earlier run made of it; a task due in the minute
\* after the one the program starts in
\* databases of raining2.py that another program or an older version wrote,
\* with recurrence values the form of add_task does not offer: values that
\* name no rule, and the two rules in other case
OddStore(recurrences) ==
    {Row(n, "lab", <<2024, 2, 29>>, StoredTime(<<23, 59>>), "", 0,
         IF variant = "autumn" THEN "none" ELSE recurrences[n]) :
        n \in 1..Len(recurrences)}

OddStores ==
    {OddStore(<<NULL, "", "monthly">>), OddStore(<<"Daily">>),
     OddStore(<<"WEEKLY">>)}

InitialStores ==
    { {},
      {Persisted(1, <<2024, 2, 29>>, 1)},
      {Persisted(1, <<2024, 2, 29>>, 1), Persisted(2, <<2024, 3, 1>>, 0)},
      {Row(1, "quiz", <<2024, 3, 1>>, StoredTime(<<0, 0>>), "", 0, "none")} }

\* the program has been constructed on the database as it found it
Started ==
    /\ disk = tasks
    /\ autoinc = Cardinality(tasks) + 1
    /\ connOpen = TRUE
    /\ rootAlive = TRUE
    /\ stop_event = FALSE
    /\ fg = "run"
    /\ ops = 0
    /\ now \in StartPhases
    /\ pc = "loop"
    /\ key = <<>>
    /\ matches = <<>>
    /\ m = NoRow
    /\ count = 0
    /\ handled = {}
    /\ i = 0
    /\ wake = 0
    /\ late = FALSE
    /\ tickAt = now
    /\ everIds = Ids(tasks)
    /\ popups = 0
    /\ held = 0
    /\ log = <<>>
    /\ failed = FALSE
    /\ dIn = <<>>
    /\ dRec = ""
    /\ dOut = <<>>

Init ==
    /\ variant \in Variants
    /\ tasks \in InitialStores
    /\ Started

fgvars == <<connOpen, rootAlive, stop_event, fg, ops>>
datevars == <<dIn, dRec, dOut>>

----------------------------------------------------------------------------
(* The alarm thread *)

\* an exception that ends the thread
AfterExceptionExit == "done"

\* where an exception raised in the try block leaves the thread: the except
\* clause prints and the loop goes on to its sleep
AfterException ==
    IF variant = "raining2" THEN "sleep"
    ELSE IF variant = "hyper5" THEN "clear"
    ELSE "sleeping"

\* the thread's state after an exception raised at position pc
Except ==
    /\ pc' = AfterException
    /\ i' = 0
    /\ wake' = IF AfterException = "sleeping" THEN now + SleepLong ELSE wake
    /\ failed' = TRUE
    /\ UNCHANGED <<matches, m, count>>

\* a connection that still works after conn.close()
StoreUpAfterClose == TRUE

\* a store call of the alarm thread can succeed: raining2.py needs the shared
\* connection open
StoreUp == Sqlite => connOpen

\* a store call of the alarm thread can raise at any time (the database is
\* locked, the server is away), and does when the connection is closed
StoreDown == TRUE

\* while not stop_event.is_set():
BgLoopTest ==
    /\ pc = "loop"
    /\ IF stop_event
       THEN /\ pc' = "done"
            /\ UNCHANGED <<key, tickAt>>
       ELSE IF Sqlite
       THEN /\ pc' = "query"
            /\ key' = CurrentKey(now)
            /\ tickAt' = now
       ELSE /\ pc' = "connect"
            /\ UNCHANGED <<key, tickAt>>
    /\ UNCHANGED <<matches, m, count, handled, i, wake, log, failed>>
    /\ UNCHANGED <<variant, held, tasks, disk, autoinc, fgvars, now, late, everIds,
                   popups, datevars>>

\* the connections the thread holds when conn = get_connection() has run:
\* the new one, and those an abandoned tick left open, unless the
\* interpreter has reclaimed them (the name conn was their last reference),
\* which closes them
Opened(n) == {1, n + 1}

\* hyper5.py, autumn.py: get_connection(), conn.cursor(), now.strftime(...)
BgConnect ==
    /\ pc = "connect"
    /\ \/ /\ pc' = "query"
          /\ key' = CurrentKey(now)
          /\ tickAt' = now
          /\ held' \in Opened(held)
          /\ UNCHANGED <<matches, m, count, handled, i, wake, log, failed>>
       \/ /\ StoreDown
          /\ Except
          /\ UNCHANGED log
          /\ UNCHANGED <<key, handled, tickAt, held>>
    /\ UNCHANGED <<variant, tasks, disk, autoinc, fgvars, now, late, everIds,
                   popups, datevars>>

\* a tick that also cleans the table: it deletes the tasks of earlier days
\* before it runs the due query
BgQueryCleaningOld ==
    /\ pc = "query"
    /\ \/ /\ StoreUp
          /\ tasks' = {r \in tasks : TextLeq(SubSeq(key, 1, 3), r.date)}
          /\ disk' = tasks'
          /\ matches' = FetchAll(DueQuery(tasks', key))
          /\ pc' = "for"
          /\ UNCHANGED <<m, count, handled, i, wake, log, failed>>
       \/ /\ StoreDown
          /\ Except
          /\ UNCHANGED log
          /\ UNCHANGED <<handled, tasks, disk>>
    /\ UNCHANGED <<key, variant, held, autoinc, fgvars, now, late, histvars,
                   datevars>>

\* the due query and fetchall()
BgQuery ==
    /\ pc = "query"
    /\ \/ /\ StoreUp
          /\ matches' = FetchAll(DueQuery(tasks, key))
          /\ pc' = "for"
          /\ UNCHANGED <<m, count, handled, i, wake, log, failed>>
       \/ /\ StoreDown
          /\ Except
          /\ UNCHANGED log
          /\ UNCHANGED handled
    /\ UNCHANGED <<key, variant, held, tasks, disk, autoinc, fgvars, now, late,
                   histvars, datevars>>

\* the log with its last entry, the running iteration's, changed
Seen(q, S) == [q EXCEPT ![Len(q)].seen = {S}]
Inserted(q, S, T) ==
    [q EXCEPT ![Len(q)].ins = T \ S, ![Len(q)].lost = S \ T]
Done(q) == [q EXCEPT ![Len(q)].done = TRUE]

\* a popup that the thread showed itself, waiting for the earlier ones
SinkReadyWhenDismissed == popups = 0

\* root.after(100, ...) returns once the callback is scheduled, and
\* Thread(target=playsound).start() once the thread is started: neither waits
\* for a popup or a sound
SinkReady == TRUE

\* the iteration of the for loop that comes next hands a popup to the root
Emits ==
    /\ matches # <<>>
    /\ <<Head(matches).id, key>> \notin handled
    /\ rootAlive

\* for m in matches: the dedup guard, the sound and the popup, and the
\* decision whether the row gets a successor
BgFor ==
    /\ pc = "for"
    /\ Emits => SinkReady
    /\ popups' = IF Emits THEN popups + 1 ELSE popups
    /\ IF matches = <<>>
       THEN /\ pc' = IF Sqlite THEN "sleep" ELSE "close"
            /\ i' = 0
            /\ UNCHANGED <<matches, m, count, handled, wake, log, failed>>
       ELSE LET r == Head(matches)
                unique == <<r.id, key>>
                next_date == SuccessorDate(r)
            IN  IF unique \in handled
                THEN /\ matches' = Tail(matches)
                     /\ UNCHANGED <<pc, m, count, handled, i, wake, log, failed>>
                ELSE /\ handled' = handled \cup {unique}
                     /\ IF ~rootAlive
                        THEN /\ Except
                             /\ UNCHANGED log
                        ELSE IF next_date = ValueError
                        THEN /\ Except
                             /\ log' = Append(log, Fired(r, key, now))
                        ELSE /\ matches' = Tail(matches)
                             /\ m' = r
                             /\ IF next_date = None
                                THEN /\ pc' = "for"
                                     /\ log' = Done(Append(log, Fired(r, key, now)))
                                     /\ UNCHANGED failed
                                ELSE /\ pc' = IF Sqlite THEN "dupcheck"
                                              ELSE "insert"
                                     /\ log' = Append(log, Fired(r, key, now))
                                     /\ UNCHANGED failed
                             /\ UNCHANGED <<count, i, wake>>
    /\ UNCHANGED <<key, variant, held, tasks, disk, autoinc, fgvars, now, late,
                   tickAt, everIds, datevars>>

\* raining2.py: SELECT COUNT(*) ... of the next occurrence
BgDupCheck ==
    /\ pc = "dupcheck"
    /\ \/ /\ StoreUp
          /\ count' = DupCount(tasks, m.title, SuccessorDate(m), m.time,
                               m.recurrence)
          /\ IF count' = 0
             THEN /\ pc' = "insert"
                  /\ log' = Seen(log, tasks)
                  /\ UNCHANGED failed
             ELSE /\ pc' = "for"
                  /\ log' = Done(Seen(log, tasks))
                  /\ UNCHANGED failed
          /\ UNCHANGED <<matches, m, i, wake>>
       \/ /\ StoreDown
          /\ Except
          /\ UNCHANGED log
    /\ UNCHANGED <<key, handled, variant, held, tasks, disk, autoinc, fgvars, now,
                   late, histvars, datevars>>

\* INSERT INTO tasks (...) of the next occurrence; hyper5.py: and conn.commit()
BgInsert ==
    /\ pc = "insert"
    /\ \/ /\ StoreUp
          /\ LET new == SuccessorRow(tasks, m, SuccessorDate(m))
             IN  tasks' = InsertSuccessor(tasks, m, new)
          /\ everIds' = everIds \cup Ids(tasks')
          /\ IF Sqlite
             THEN /\ pc' = "commit"
                  /\ log' = Inserted(log, tasks, tasks')
                  /\ UNCHANGED failed
                  /\ UNCHANGED <<disk, autoinc>>
             ELSE /\ pc' = "for"
                  /\ log' = Done(Inserted(log, tasks, tasks'))
                  /\ UNCHANGED failed
                  /\ disk' = tasks'
                  /\ autoinc' = autoinc + 1
          /\ UNCHANGED <<matches, m, count, i, wake>>
       \/ /\ StoreDown
          /\ Except
          /\ UNCHANGED log
          /\ UNCHANGED <<tasks, disk, autoinc, everIds>>
    /\ UNCHANGED <<key, handled, variant, held, fgvars, now, late, tickAt, popups,
                   datevars>>

\* raining2.py: conn.commit() after the INSERT
BgCommit ==
    /\ pc = "commit"
    /\ \/ /\ StoreUp
          /\ disk' = tasks
          /\ pc' = "for"
          /\ log' = Done(log)
          /\ UNCHANGED failed
          /\ UNCHANGED <<matches, m, count, i, wake>>
       \/ /\ StoreDown
          /\ Except
          /\ UNCHANGED log
          /\ UNCHANGED disk
    /\ UNCHANGED <<key, handled, variant, held, tasks, autoinc, fgvars, now, late, histvars,
                   datevars>>

\* hyper5.py, autumn.py: cursor.close(), conn.close(); autumn.py then clears
\* the guard inside the try block and goes to its sleep
BgClose ==
    /\ pc = "close"
    /\ \/ /\ IF variant = "autumn"
             THEN /\ handled' = {}
                  /\ pc' = "sleeping"
                  /\ wake' = now + SleepLong
             ELSE /\ pc' = "clear"
                  /\ UNCHANGED <<handled, wake>>
          /\ held' = held - 1
          /\ UNCHANGED <<matches, m, count, i, log, failed>>
       \/ /\ StoreDown
          /\ Except
          /\ UNCHANGED log
          /\ UNCHANGED <<handled, held>>
    /\ UNCHANGED <<key, variant, tasks, disk, autoinc, fgvars, now, late,
                   histvars, datevars>>

\* a guard that is never emptied
ClearedForgotten(guard) == guard

\* set.clear()
Cleared(guard) == {}

\* raining2.py: handled_this_minute.clear() after the sleep loop;
\* hyper5.py: handled.clear() and then time.sleep(60)
BgClear ==
    /\ pc = "clear"
    /\ handled' = Cleared(handled)
    /\ IF Sqlite
       THEN /\ pc' = "loop"
            /\ UNCHANGED wake
       ELSE /\ pc' = "sleeping"
            /\ wake' = now + SleepLong
    /\ UNCHANGED <<key, matches, m, count, i, log, failed>>
    /\ UNCHANGED <<variant, held, tasks, disk, autoinc, fgvars, now, late, histvars,
                   datevars>>

\* a sleep loop that runs its seven steps whatever the event
SleepLoopOverIgnoringStop == i >= SleepSteps

\* the sleep loop is left: range(7) is exhausted, or the break
SleepLoopOver == i >= SleepSteps \/ stop_event

\* raining2.py: for i in range(7): if stop_event.is_set(): break; time.sleep(10)
BgSleepCheck ==
    /\ pc = "sleep"
    /\ IF SleepLoopOver
       THEN /\ pc' = "clear"
            /\ UNCHANGED wake
       ELSE /\ pc' = "sleeping"
            /\ wake' = now + SleepShort
    /\ UNCHANGED <<key, matches, m, count, handled, i, log, failed>>
    /\ UNCHANGED <<variant, held, tasks, disk, autoinc, fgvars, now, late, histvars,
                   datevars>>

\* time.sleep returns, not before its time is over
BgWake ==
    /\ pc = "sleeping"
    /\ now >= wake
    /\ IF Sqlite
       THEN /\ pc' = "sleep"
            /\ i' = i + 1
       ELSE /\ pc' = "loop"
            /\ UNCHANGED i
    /\ UNCHANGED <<key, matches, m, count, handled, wake, log, failed>>
    /\ UNCHANGED <<variant, held, tasks, disk, autoinc, fgvars, now, late, histvars,
                   datevars>>

alarm_checker ==
    \/ BgLoopTest
    \/ BgConnect
    \/ BgQuery
    \/ BgFor
    \/ BgDupCheck
    \/ BgInsert
    \/ BgCommit
    \/ BgClose
    \/ BgClear
    \/ BgSleepCheck
    \/ BgWake

----------------------------------------------------------------------------
(* The foreground: the handlers of PlannerApp *)

bgstate == <<pc, key, matches, m, count, handled, i, wake, log, failed>>

\* add_task: the validated form, INSERT and commit
add_task(title, date, time, recurrence) ==
    /\ fg = "run"
    /\ ops < MaxOps
    /\ ValidDate(date)
    /\ variant = "autumn" => recurrence = "none"
    /\ tasks' = tasks \cup {Row(NewId(tasks), title, date, StoredTime(time),
                                "", 0, recurrence)}
    /\ disk' = tasks'
    /\ everIds' = everIds \cup Ids(tasks')
    /\ autoinc' = IF Sqlite THEN autoinc ELSE autoinc + 1
    /\ ops' = ops + 1
    /\ UNCHANGED <<variant, held, connOpen, rootAlive, stop_event, fg, now, late,
                   tickAt, popups, bgstate, datevars>>

\* raining2.py delete_task: DELETE FROM tasks WHERE id=? and commit
delete_task(task_id) ==
    /\ fg = "run"
    /\ ops < MaxOps
    /\ Sqlite
    /\ tasks' = {r \in tasks : r.id # task_id}
    /\ disk' = tasks'
    /\ ops' = ops + 1
    /\ UNCHANGED <<variant, held, autoinc, connOpen, rootAlive, stop_event, fg, now,
                   late, histvars, bgstate, datevars>>

\* raining2.py update_task: UPDATE tasks SET title, date, time, description,
\* recurrence WHERE id=? and commit
update_task(task_id, new_title, new_date, new_time, new_recurrence) ==
    /\ fg = "run"
    /\ ops < MaxOps
    /\ Sqlite
    /\ ValidDate(new_date)
    /\ tasks' = {IF r.id = task_id
                 THEN [r EXCEPT !.title = new_title, !.date = new_date,
                                !.time = new_time,
                                !.recurrence = new_recurrence]
                 ELSE r : r \in tasks}
    /\ disk' = tasks'
    /\ ops' = ops + 1
    /\ UNCHANGED <<variant, held, autoinc, connOpen, rootAlive, stop_event, fg, now,
                   late, histvars, bgstate, datevars>>

\* on_quit, quit_app, exit_app: self.stop_event.set(); raining2.py then waits
\* in alarm_thread.join(timeout=1), the other two destroy the root at once
on_quit_set ==
    /\ fg = "run"
    /\ stop_event' = TRUE
    /\ IF Sqlite
       THEN /\ fg' = "join"
            /\ UNCHANGED rootAlive
       ELSE /\ fg' = "quit"
            /\ rootAlive' = FALSE
    /\ UNCHANGED <<variant, held, tasks, disk, autoinc, connOpen, ops, now, late, histvars,
                   bgstate, datevars>>

\* raining2.py on_quit after the join returned (the thread ended, or the
\* timeout of one second passed): conn.close(), which drops what was not
\* committed, and root.destroy()
on_quit_close ==
    /\ fg = "join"
    /\ connOpen' = FALSE
    /\ tasks' = disk
    /\ rootAlive' = FALSE
    /\ fg' = "quit"
    /\ UNCHANGED <<variant, held, disk, autoinc, stop_event, ops, now, late, histvars, bgstate,
                   datevars>>

Foreground ==
    \/ \E title \in Titles, in \in AddInputs, time \in AddTimes :
          add_task(title, in[1], time, in[2])
    \/ \E r \in tasks : delete_task(r.id)
    \/ \E r \in tasks, date \in AddDates :
            update_task(r.id, r.title, date, r.time, r.recurrence)
    \/ on_quit_set
    \/ on_quit_close

----------------------------------------------------------------------------
(* Time *)

\* The thread reads the clock once per tick, at its start, and nothing else
\* reads it; so the time a tick's steps take, and a sleep that returns late,
\* only delay the next tick.  The model lets all of that delay pass in the
\* last sleep before the next tick: the clock advances while the thread
\* sleeps, and beyond the end of that last sleep only.
LastSleep == Sqlite => i = SleepSteps - 1

Tick ==
    /\ now < MaxTime
    /\ pc = "sleeping"
    /\ now < wake \/ LastSleep
    /\ now' = now + 1
    /\ late' = (late \/ now >= wake)
    /\ UNCHANGED <<variant, held, tasks, disk, autoinc, fgvars, bgstate, histvars,
                   datevars>>

Next == alarm_checker \/ Foreground \/ Tick

Spec == Init /\ [][Next]_vars

----------------------------------------------------------------------------
(* The programs with the user dismissing the popups *)

\* the user closes a messagebox.showinfo that a root.after callback opened
popup_dismiss ==
    /\ fg = "run"
    /\ popups > 0
    /\ popups' = popups - 1
    /\ UNCHANGED <<variant, held, tasks, disk, autoinc, fgvars, now, late, tickAt,
                   everIds, bgstate, datevars>>

\* a database with two tasks due in the minute the program starts in
SinkStores ==
    { {Persisted(1, <<2024, 2, 29>>, 0),
       Row(2, "lab", <<2024, 2, 29>>, StoredTime(<<23, 59>>), "", 0, "none")} }

InitSink ==
    /\ variant \in Variants
    /\ tasks \in SinkStores
    /\ Started

NextSink == Next \/ popup_dismiss

SpecSink == InitSink /\ [][NextSink]_vars

----------------------------------------------------------------------------
(* The programs started on a database with the odd recurrence values *)

InitOdd ==
    /\ variant \in Variants
    /\ tasks \in OddStores
    /\ Started

SpecOdd == InitOdd /\ [][Next]_vars

----------------------------------------------------------------------------
(* The recurrence advancement alone, over the calendar: one recurring task *)
(* with due date dIn and rule dRec is advanced as alarm_checker does it    *)

Years == {1900, 2000} \cup (2023 .. 2023 + YearSpan)

CalendarDates ==
    {d \in Years \X (1..12) \X (1..31) : ValidDate(d)}

InitDates ==
    /\ variant \in {"raining2", "hyper5"}
    /\ dIn \in CalendarDates
    /\ dRec \in Recurrences
    /\ dOut = <<>>
    /\ tasks = {Row(1, "hw", dIn, StoredTime(<<23, 59>>), "", 0, dRec)}
    /\ disk = tasks
    /\ autoinc = 2
    /\ connOpen = TRUE
    /\ rootAlive = TRUE
    /\ stop_event = FALSE
    /\ fg = "run"
    /\ ops = 0
    /\ now = 0
    /\ pc = "advance"
    /\ key = <<>>
    /\ matches = <<>>
    /\ m = NoRow
    /\ count = 0
    /\ handled = {}
    /\ i = 0
    /\ wake = 0
    /\ late = FALSE
    /\ tickAt = now
    /\ everIds = Ids(tasks)
    /\ popups = 0
    /\ held = 0
    /\ log = <<>>
    /\ failed = FALSE

Advance ==
    /\ pc = "advance"
    /\ pc' = "advanced"
    /\ m' = CHOOSE r \in tasks : TRUE
    /\ dOut' = SuccessorDate(m')
    /\ tasks' = IF dOut' \in {None, ValueError} THEN tasks
                ELSE InsertSuccessor(tasks, m', SuccessorRow(tasks, m', dOut'))
    /\ disk' = tasks'
    /\ everIds' = everIds \cup Ids(tasks')
    /\ UNCHANGED <<variant, held, autoinc, fgvars, now, key, matches, count, handled,
                   i, wake, late, tickAt, popups, log, failed, dIn, dRec>>

SpecDates == InitDates /\ [][Advance]_vars

----------------------------------------------------------------------------
(* C2: the successor of a weekly task due on D is due on D + 7 days, at   *)
(* the same time of day, for every date D of the calendar: within a month, *)
(* across the end of a month, of February in leap and other years, and of  *)
(* a year.                                                                 *)
C2_WeeklyPlusSeven ==
    (pc = "advanced" /\ dRec = "weekly") =>
        /\ dOut = AddDays(dIn, 7)
        /\ \E r \in tasks : /\ r.id # m.id
                            /\ r.date = AddDays(m.date, 7)
                            /\ r.time = m.time
        /\ Cardinality(tasks) = 2

C2_Witness ==
    /\ pc = "advanced"
    /\ dRec = "weekly"
    /\ dIn = <<2024, 12, 28>>
    /\ dOut = <<2025, 1, 4>>

----------------------------------------------------------------------------
(* What the claims speak of *)

\* the days a recurrence rule advances a due date by
RuleDays(recurrence) == IF Lower(recurrence) = "weekly" THEN 7 ELSE 1

\* store S holds a task with the tuple of the next occurrence of row r
HasSuccessorTuple(S, r) ==
    \E x \in S : /\ x.title = r.title
                 /\ x.date = AddDays(r.date, RuleDays(r.recurrence))
                 /\ x.time = r.time
                 /\ x.recurrence = r.recurrence

\* row x is the next occurrence of row r, n days on
IsSuccessorOf(x, r, n) ==
    /\ x.title = r.title
    /\ x.date = AddDays(r.date, n)
    /\ x.time = r.time
    /\ x.recurrence = r.recurrence
    /\ x.completed = 0

\* the alarm thread took the step
BgStep == bgvars' # bgvars

----------------------------------------------------------------------------
----------------------------------------------------------------------------
(* C3: a task with recurrence 'none' that fires gets no successor: its     *)
(* iteration runs no duplicate check and no INSERT, and leaves the rows of *)
(* the store as they were.                                                 *)
C3_NoneInsertsNothing ==
    /\ \A n \in Firings :
          log[n].m.recurrence = "none" =>
              /\ log[n].seen = {}
              /\ log[n].ins = {}
              /\ log[n].lost = {}
              /\ log[n].done
    /\ pc \in {"dupcheck", "insert", "commit"} => m.recurrence # "none"

C3_Witness ==
    \E n \in Firings : /\ log[n].m.recurrence = "none"
                       /\ log[n].m.title = "hw"
                       /\ pc = "sleep"

----------------------------------------------------------------------------
(* C4: in one run of alarm_checker no task id fires twice under the same   *)
(* minute key.                                                             *)
C4_NoDoubleFiring ==
    \A a, b \in Firings :
        (log[a].m.id = log[b].m.id /\ log[a].key = log[b].key) => a = b

C4_Witness ==
    \E n \in Firings : /\ log[n].m \in tasks
                       /\ pc = "for"
                       /\ key # log[n].key

----------------------------------------------------------------------------
(* C5: when the duplicate check of raining2.py finds a task with the       *)
(* title, next due date, time and recurrence of the firing task, the       *)
(* firing inserts nothing; and no firing inserts more than one row.        *)
C5_AdvancementIdempotent ==
    \A n \in Firings :
        /\ \A S \in log[n].seen :
              HasSuccessorTuple(S, log[n].m) => log[n].ins = {}
        /\ Cardinality(log[n].ins) <= 1

C5_Witness ==
    \E n \in Firings : /\ \E S \in log[n].seen : HasSuccessorTuple(S, log[n].m)
                       /\ log[n].ins = {}
                       /\ log[n].done

----------------------------------------------------------------------------
(* C6 as stated: in raining2.py a task that is in the store for the whole  *)
(* of its due minute, with the alarm thread running on schedule, not       *)
(* stopped and without an exception, has had its alarm emitted once that   *)
(* minute is over.                                                         *)
MinuteOver(r) ==
    /\ \E t \in 0..now : CurrentKey(t) = DueText(r)
    /\ CurrentKey(now) # DueText(r)

C6_Original ==
    (variant = "raining2" /\ ops = 0 /\ fg = "run" /\ ~stop_event /\ ~failed
        /\ ~late) =>
        \A r \in tasks :
            MinuteOver(r) => \E n \in Firings : log[n].m = r

----------------------------------------------------------------------------
(* C7: an alarm is emitted only for a row whose date and time are the      *)
(* minute key of the tick that emits it, which is the minute the tick      *)
(* started in: no tick fires a task whose due minute is another one.       *)
C7_ExactMinuteMatch ==
    \A n \in Firings :
        /\ DueText(log[n].m) = log[n].key
        /\ log[n].key = CurrentKey(log[n].at)

C7_Witness ==
    \E n \in Firings : /\ log[n].m.recurrence = "none"
                       /\ log[n].m \in tasks
                       /\ pc = "sleep"
                       /\ key # log[n].key

----------------------------------------------------------------------------
(* C8: an exception raised in a tick does not end alarm_checker: the step  *)
(* that raises leaves the thread before its sleep, with the store as it    *)
(* was, and the thread leaves its loop only when the stop event is set.    *)
C8_FailedTickNotFatal ==
    /\ [][(~failed /\ failed') =>
            /\ pc' \in {"sleep", "clear", "sleeping"}
            /\ tasks' = tasks
            /\ disk' = disk]_vars
    /\ [](pc = "done" => stop_event)

C8_Witness ==
    /\ failed
    /\ ~stop_event
    /\ pc = "for"

----------------------------------------------------------------------------
(* C9: in raining2.py, once on_quit has returned, no step of the alarm     *)
(* thread changes the store, wherever in its tick or sleep the thread is.  *)
C9_NoWriteAfterQuit ==
    [][(variant = "raining2" /\ fg = "quit") =>
            (tasks' = tasks /\ disk' = disk)]_vars

C9_Witness ==
    /\ variant = "raining2"
    /\ fg = "quit"
    /\ pc = "insert"

----------------------------------------------------------------------------
(* C10: no step of alarm_checker removes or changes a row: every row of   *)
(* the store before the step, the firing task with its completed flag      *)
(* among them, is in the store after it.                                   *)
C10_SchedulerOnlyCreates ==
    [][BgStep => (tasks \subseteq tasks' /\ disk \subseteq disk')]_vars

C10_Witness ==
    \E n \in Firings : /\ log[n].ins # {}
                       /\ log[n].m \in tasks
                       /\ log[n].ins \subseteq disk

----------------------------------------------------------------------------
(* C11 as stated: in raining2.py a task whose recurrence is none of        *)
(* 'none', 'daily', 'weekly' fires like a task with recurrence 'none': no  *)
(* duplicate check, no successor, and its iteration runs to its end.       *)
C11_Original ==
    variant = "raining2" =>
        \A n \in Firings :
            log[n].m.recurrence \notin {"none", "daily", "weekly"} =>
                /\ log[n].seen = {}
                /\ log[n].ins = {}
                /\ log[n].done

\* the recurrence value reads, whatever its case, as the rule daily or weekly
ReadsAsRule(recurrence) ==
    recurrence \in {"daily", "Daily", "DAILY", "weekly", "Weekly", "WEEKLY"}

(* C11 as amended: in raining2.py a task whose recurrence is NULL or a     *)
(* text that is not 'daily' or 'weekly' in any case of its letters fires   *)
(* like a task with recurrence 'none': no duplicate check, no successor,   *)
(* no row changed, and its iteration runs to its end.  A text that is      *)
(* 'daily' or 'weekly' in other case is advanced by that rule, and the     *)
(* successor carries the text as it is stored.                             *)
C11_UnknownRecurrenceIsNone ==
    variant = "raining2" =>
        \A n \in Firings :
            LET r == log[n].m IN
            /\ ~ReadsAsRule(r.recurrence) =>
                  /\ log[n].seen = {}
                  /\ log[n].ins = {}
                  /\ log[n].lost = {}
                  /\ log[n].done
            /\ (ReadsAsRule(r.recurrence) /\ log[n].done) =>
                  /\ log[n].seen # {}
                  /\ \A S \in log[n].seen :
                        ~HasSuccessorTuple(S, r) =>
                            \E x \in log[n].ins :
                                IsSuccessorOf(x, r, RuleDays(r.recurrence))

C11_Witness ==
    /\ variant = "raining2"
    /\ pc = "sleep"
    /\ \A v \in {NULL, "", "monthly"} :
          \E n \in Firings : log[n].m.recurrence = v /\ log[n].done
    /\ tasks = disk
    /\ Cardinality(tasks) = 3

----------------------------------------------------------------------------
(* C12 as stated: in raining2.py, with every sleep returning on time and   *)
(* the stop event not set, a tick starts at most 60 seconds after the      *)
(* tick before it.                                                         *)
C12_Original ==
    [][(variant = "raining2" /\ ~late /\ pc = "loop" /\ pc' = "query") =>
            (now - tickAt) * SecondsPerUnit <= 60]_vars

----------------------------------------------------------------------------
(* C13 as stated: in raining2.py no step gives a new row an id that a row  *)
(* of the table has had before, deleted rows included.                     *)
C13_Original ==
    [][variant = "raining2" =>
            (Ids(tasks') \ Ids(tasks)) \cap everIds = {}]_vars

----------------------------------------------------------------------------
(* C14: the alarm thread never waits for the sink: with popups handed over *)
(* and not dismissed, the thread can take its next step wherever it is in  *)
(* its tick: the next matched task, the duplicate check, the INSERT, the   *)
(* commit, the sleep loop.                                                 *)
C14_EmitNeverBlocks ==
    (popups > 0 /\ pc \notin {"sleeping", "done"}) => ENABLED alarm_checker

C14_Witness ==
    /\ variant = "raining2"
    /\ popups = 2
    /\ Len(log) = 2
    /\ log[1].ins # {}
    /\ log[1].done
    /\ pc = "query"
    /\ tickAt > log[2].at

----------------------------------------------------------------------------
(* C15: every row alarm_checker inserts has the title, the description,    *)
(* the time of day and the recurrence of the firing row, and completed = 0 *)
(* whatever the firing row's completed is.                                 *)
C15_SuccessorCarriesFields ==
    \A n \in Firings :
        \A x \in log[n].ins :
            /\ x.title = log[n].m.title
            /\ x.description = log[n].m.description
            /\ x.time = log[n].m.time
            /\ x.recurrence = log[n].m.recurrence
            /\ x.completed = 0

C15_Witness ==
    \E n \in Firings :
        \E x \in log[n].ins :
            /\ log[n].m.completed = 1
            /\ log[n].m.description = "ch3"
            /\ x.description = "ch3"
            /\ x.completed = 0
            /\ x \in disk

----------------------------------------------------------------------------
(* C16: in the MySQL program of autumn.py no step of alarm_checker changes *)
(* the table: no row is inserted, changed or deleted, whatever is due.     *)
C16_AutumnNeverWrites ==
    [][(variant = "autumn" /\ BgStep) =>
            (tasks' = tasks /\ disk' = disk)]_vars

\* the minute a row is due in: its date with the hour and minute of its time
DueMinute(r) == r.date \o SubSeq(r.time, 1, 2)

C16_Witness ==
    /\ variant = "autumn"
    /\ pc = "sleeping"
    /\ tickAt > 0
    /\ ~failed
    /\ \E r \in tasks : DueMinute(r) = key

----------------------------------------------------------------------------
(* C17: in raining2.py and hyper5.py the dedup guard is empty when a tick  *)
(* starts, also after a tick that an exception ended; during the tick it   *)
(* holds entries under the tick's key only, and it grows by one entry, the *)
(* one of the fetched row the loop is at, so it never holds more entries   *)
(* than the tick fetched rows.                                             *)
C17_GuardOfCurrentTickOnly ==
    /\ [](variant \in {"raining2", "hyper5"} =>
            /\ pc \in {"loop", "connect", "query"} => handled = {}
            /\ \A u \in handled : u[2] = key)
    /\ [][(variant \in {"raining2", "hyper5"} /\ handled' # handled
                /\ handled' # {}) =>
            /\ matches # <<>>
            /\ handled' = handled \cup {<<Head(matches).id, key>>}]_vars

C17_Witness ==
    /\ variant = "raining2"
    /\ failed
    /\ Len(log) = 1
    /\ ~log[1].done
    /\ pc = "query"
    /\ tickAt > log[1].at
    /\ handled = {}

----------------------------------------------------------------------------
----------------------------------------------------------------------------
(* C20: in hyper5.py and in the MySQL program of autumn.py, the due query  *)
(* of a tick returns every stored task whose due date and time, cut to the *)
(* minute, are the tick's key.                                             *)
C20_Original ==
    [][(variant \in {"hyper5", "autumn"} /\ pc = "query" /\ pc' = "for") =>
          \A r \in tasks :
              DueMinute(r) = key =>
                  \E j \in 1..Len(matches') : matches'[j] = r]_vars

----------------------------------------------------------------------------
(* The early programs: src/winter.py and the first program of              *)
(* src/autumn.py ("autumn0"), whose check_alarms is a callback of the Tk   *)
(* main loop that reschedules itself with root.after(60000, ...), and      *)
(* src/summer.py, whose alarm_checker is a daemon thread with a            *)
(* time.sleep(60).  None of them has a try block.  pc = "done" is the      *)
(* scheduler gone: the callback not rescheduled, the thread ended.         *)

EarlyVariants == {"winter", "autumn0", "summer"}

\* the scheduler runs on the thread that made the module's connection and
\* cursor; summer.py's does not, and sqlite3 (check_same_thread left at its
\* default) raises ProgrammingError on every call from another thread
SameThread == variant # "summer"

EarlyRow(id, title, date) == Row(id, title, date, <<23, 59>>, "ch3", 0, NULL)

\* the database when the program starts: empty, one task due in the minute
\* the program starts in, or two of them
EarlyStores ==
    { {},
      {EarlyRow(1, "hw", <<2024, 2, 29>>)},
      {EarlyRow(1, "hw", <<2024, 2, 29>>), EarlyRow(2, "lab", <<2024, 2, 29>>)} }

InitEarly ==
    /\ variant \in EarlyVariants
    /\ tasks \in EarlyStores
    /\ Started

earlyfixed == <<variant, held, disk, autoinc, stop_event, late, everIds, m, count,
                handled, i, log, datevars>>

\* where an exception leaves the scheduler: it propagates out of
\* check_alarms before root.after is reached, or out of the thread's
\* function
EarlyAfterException == "done"

\* now = ...strftime("%Y-%m-%d %H:%M"); cursor.execute("SELECT ...", (now,))
EarlyQuery ==
    /\ variant \in EarlyVariants
    /\ pc = "loop"
    /\ fg = "run"
    /\ key' = CurrentKey(now)
    /\ tickAt' = now
    /\ \/ /\ SameThread
          /\ connOpen
          /\ matches' = FetchAll(DueQuery(tasks, key'))
          /\ pc' = "for"
          /\ UNCHANGED failed
       \/ /\ StoreDown
          /\ matches' = <<>>
          /\ pc' = EarlyAfterException
          /\ failed' = TRUE
    /\ UNCHANGED <<tasks, connOpen, rootAlive, fg, ops, now, wake, popups>>
    /\ UNCHANGED earlyfixed

\* for task in cursor.fetchall(): messagebox.showinfo(...), which returns
\* when the user has closed the box; after the loop root.after(60000, ...)
\* or time.sleep(60)
EarlyFor ==
    /\ variant \in EarlyVariants
    /\ pc = "for"
    /\ fg = "run"
    /\ IF matches = <<>>
       THEN /\ pc' = "sleeping"
            /\ wake' = now + SleepLong
            /\ UNCHANGED <<matches, popups>>
       ELSE /\ pc' = "popup"
            /\ matches' = Tail(matches)
            /\ popups' = popups + 1
            /\ UNCHANGED wake
    /\ UNCHANGED <<tasks, connOpen, rootAlive, fg, ops, now, key, tickAt,
                   failed>>
    /\ UNCHANGED earlyfixed

\* the user closes the box and messagebox.showinfo returns
EarlyPopupClosed ==
    /\ variant \in EarlyVariants
    /\ pc = "popup"
    /\ fg = "run"
    /\ popups' = popups - 1
    /\ pc' = "for"
    /\ UNCHANGED <<tasks, connOpen, rootAlive, fg, ops, now, key, tickAt,
                   failed, matches, wake>>
    /\ UNCHANGED earlyfixed

\* the 60 seconds are over: the main loop calls check_alarms, time.sleep
\* returns
EarlyWake ==
    /\ variant \in EarlyVariants
    /\ pc = "sleeping"
    /\ fg = "run"
    /\ now >= wake
    /\ pc' = "loop"
    /\ UNCHANGED <<tasks, connOpen, rootAlive, fg, ops, now, key, tickAt,
                   failed, matches, wake, popups>>
    /\ UNCHANGED earlyfixed

\* add_task of the early programs: INSERT and commit on the module's cursor
EarlyAddTask(title, date) ==
    /\ variant \in EarlyVariants
    /\ fg = "run"
    /\ ops < MaxOps
    /\ connOpen
    /\ tasks' = tasks \cup {EarlyRow(NewId(tasks), title, date)}
    /\ disk' = tasks'
    /\ everIds' = everIds \cup Ids(tasks')
    /\ ops' = ops + 1
    /\ UNCHANGED <<variant, held, autoinc, connOpen, rootAlive, stop_event, fg, now,
                   late, tickAt, popups, bgstate, datevars>>

\* the window is closed: on_close of autumn.py closes the connection and
\* destroys the root; in winter.py and summer.py the root is destroyed and
\* the process ends
on_close ==
    /\ variant \in EarlyVariants
    /\ fg = "run"
    /\ fg' = "quit"
    /\ rootAlive' = FALSE
    /\ connOpen' = (connOpen /\ variant # "autumn0")
    /\ UNCHANGED <<variant, held, tasks, disk, autoinc, stop_event, ops, now, late,
                   histvars, bgstate, datevars>>

\* the clock, while the program runs
EarlyTick ==
    /\ now < MaxTime
    /\ fg = "run"
    /\ pc \in {"sleeping", "popup", "done"}
    /\ now' = now + 1
    /\ UNCHANGED <<variant, held, tasks, disk, autoinc, fgvars, late, bgstate,
                   histvars, datevars>>

NextEarly ==
    \/ EarlyQuery
    \/ EarlyFor
    \/ EarlyPopupClosed
    \/ EarlyWake
    \/ \E title \in Titles, date \in AddDates : EarlyAddTask(title, date)
    \/ on_close
    \/ EarlyTick

SpecEarly == InitEarly /\ [][NextEarly]_vars

----------------------------------------------------------------------------
(* C21: in winter.py, the first program of autumn.py and summer.py, while  *)
(* the program runs, a tick that raised leaves the scheduler in place: the *)
(* callback is scheduled again, the thread goes on to its next tick.       *)
C21_Original ==
    (variant \in EarlyVariants /\ failed /\ fg = "run") => pc # "done"

----------------------------------------------------------------------------
(* C22: in hyper5.py, when quit_app has set the stop event and returned,   *)
(* the alarm thread has acknowledged the stop, that is, it has ended, and  *)
(* no later step adds a row to table tasks.                                *)
C22_Original ==
    /\ []((variant = "hyper5" /\ fg = "quit") => pc = "done")
    /\ [][(variant = "hyper5" /\ fg = "quit") =>
              Ids(tasks') \subseteq Ids(tasks)]_vars

----------------------------------------------------------------------------
(* C23: in raining2.py, once the stop event is set, the alarm thread       *)
(* starts no tick (its while test sends it to the end), leaves the sleep   *)
(* loop at the next test of the event, waits in a time.sleep no longer     *)
(* than 10 seconds, is never blocked otherwise, and every step it takes    *)
(* brings it nearer to its end: it finishes the tick in progress at most,  *)
(* and terminates.                                                         *)

\* an upper bound of the steps the thread has left once the event is set
StepsLeft ==
    CASE pc = "done"     -> 0
      [] pc = "loop"     -> 1
      [] pc = "clear"    -> 2
      [] pc = "sleep"    -> 3
      [] pc = "sleeping" -> 4
      [] pc = "for"      -> 5 + 4 * Len(matches)
      [] pc = "commit"   -> 6 + 4 * Len(matches)
      [] pc = "insert"   -> 7 + 4 * Len(matches)
      [] pc = "dupcheck" -> 8 + 4 * Len(matches)
      [] OTHER           -> 6 + 4 * Cardinality(tasks)

C23_StopEndsThread ==
    /\ []((variant = "raining2" /\ stop_event /\ pc # "done") =>
            /\ pc = "sleeping" => wake <= now + SleepShort
            /\ (pc = "sleeping" /\ now < wake) \/ ENABLED alarm_checker)
    /\ [][(variant = "raining2" /\ stop_event /\ pc' # pc) =>
            /\ pc = "loop" => pc' = "done"
            /\ pc = "sleep" => pc' = "clear"
            /\ StepsLeft' < StepsLeft]_vars

C23_Witness ==
    /\ variant = "raining2"
    /\ stop_event
    /\ pc = "done"
    /\ log # <<>>
    /\ Last(log).done
    /\ Last(log).ins # {}
    /\ i < SleepSteps
    /\ now < Last(log).at + UnitsPerMinute

----------------------------------------------------------------------------
(* raining2.py started on a database that holds malformed records, as the *)
(* programs without validation (winter.py, summer.py, on the same          *)
(* planner.db) leave them: beside a task due in the minute the program     *)
(* starts in, a record dated 30 February, one whose time has seconds, and  *)
(* one whose date is written day first.  The columns of the MySQL          *)
(* programs are typed DATE and TIME and hold no such value.                *)

MalformedStore ==
    IF Sqlite
    THEN {Persisted(1, <<2024, 2, 29>>, 0),
          Row(2, "lab", <<2024, 2, 30>>, <<23, 59>>, "", 0, "daily"),
          Row(3, "lab", <<2024, 2, 29>>, <<23, 59, 0>>, "", 0, "daily"),
          Row(4, "lab", <<29, 2, 2024>>, <<23, 59>>, "", 0, "daily")}
    ELSE {Persisted(1, <<2024, 2, 29>>, 0)}

InitMalformed ==
    /\ variant \in Variants
    /\ tasks = MalformedStore
    /\ Started

SpecMalformed == InitMalformed /\ [][Next]_vars

----------------------------------------------------------------------------
(* C24: in raining2.py a record with a malformed date or time is never     *)
(* fetched by the due query, so it raises no alarm, gets no successor and  *)
(* aborts no tick; the well-formed tasks due at the tick's key are         *)
(* fetched whatever else the store holds, and every fetched row the loop   *)
(* comes to fires without the tick being abandoned.                        *)

\* the date is a date 'YYYY-MM-DD' and the time a time 'HH:MM'
WellFormed(r) ==
    /\ ValidDate(r.date)
    /\ Len(r.time) = 2
    /\ r.time[1] \in 0..23
    /\ r.time[2] \in 0..59

C24_MalformedRecordSkipped ==
    /\ [](variant = "raining2" =>
            /\ \A n \in Firings : WellFormed(log[n].m)
            /\ \A j \in 1..Len(matches) :
                  /\ WellFormed(matches[j])
                  /\ SuccessorDate(matches[j]) # ValueError
            /\ \A r \in tasks : ~WellFormed(r) =>
                  \A n \in Firings : /\ log[n].m.id # r.id
                                     /\ r \notin log[n].ins)
    /\ [][(variant = "raining2" /\ pc = "query" /\ pc' = "for") =>
            \A r \in tasks :
                (WellFormed(r) /\ DueText(r) = key) =>
                    \E j \in 1..Len(matches') : matches'[j] = r]_vars
    /\ [][(variant = "raining2" /\ rootAlive /\ handled' # handled
             /\ handled' # {}) =>
            /\ Len(log') = Len(log) + 1
            /\ Last(log').m = Head(matches)
            /\ pc' \in {"for", "dupcheck"}]_vars

C24_Witness ==
    /\ variant = "raining2"
    /\ pc = "sleep"
    /\ ~failed
    /\ Len(log) = 1
    /\ log[1].done
    /\ log[1].ins # {}
    /\ Cardinality({r \in tasks : ~WellFormed(r)}) = 3

----------------------------------------------------------------------------
----------------------------------------------------------------------------
(* C26: in raining2.py, with the foreground adding and editing tasks on    *)
(* the shared connection, the alarm thread's INSERT of a next occurrence   *)
(* never runs on a store that already holds a task with the title, next    *)
(* due date, time and recurrence of the firing task.                       *)
C26_Original ==
    [][(variant = "raining2" /\ pc = "insert" /\ pc' = "commit") =>
          ~HasSuccessorTuple(tasks, m)]_vars

----------------------------------------------------------------------------
(* C27: in raining2.py the next occurrence of a recurring task whose alarm *)
(* was emitted exists by the end of that tick or is created by a later     *)
(* one, also when the tick was abandoned after the alarm.  A later tick    *)
(* fetches the task only under the key of its due minute (C7), so with     *)
(* the foreground leaving the store alone: once the minute of the alarm    *)
(* is over, the store holds the next occurrence.                           *)
C27_Original ==
    (variant = "raining2" /\ ops = 0 /\ fg = "run") =>
        \A n \in Firings :
            (log[n].m.recurrence \in {"daily", "weekly"}
                /\ CurrentKey(now) # log[n].key) =>
                HasSuccessorTuple(tasks, log[n].m)

----------------------------------------------------------------------------
(* A recurring series of raining2.py over the days: one recurring task,    *)
(* due on dIn with rule dRec, alone in the store or with its next          *)
(* occurrence already added by the user; nothing is deleted or edited, and *)
(* in every minute in which a task is due a tick of alarm_checker runs     *)
(* without an exception.  The ticks of the other minutes fetch no row and  *)
(* change nothing.                                                         *)

SeriesRules == {"daily", "weekly", "Daily"}

SeriesRow(id, date, recurrence) ==
    Row(id, "hw", date, <<23, 59>>, "ch3", 0, recurrence)

InitSeries ==
    /\ variant = "raining2"
    /\ dIn \in CalendarDates
    /\ dRec \in SeriesRules
    /\ dOut = <<>>
    /\ tasks \in {{SeriesRow(1, dIn, dRec)},
                  {SeriesRow(1, dIn, dRec),
                   SeriesRow(2, DatePlus(dIn, RuleDaysOf(Lower(dRec))), dRec)}}
    /\ disk = tasks
    /\ autoinc = Cardinality(tasks) + 1
    /\ connOpen = TRUE
    /\ rootAlive = TRUE
    /\ stop_event = FALSE
    /\ fg = "run"
    /\ ops = 0
    /\ now = 0
    /\ pc = "sleep"
    /\ key = <<>>
    /\ matches = <<>>
    /\ m = NoRow
    /\ count = 0
    /\ handled = {}
    /\ i = 0
    /\ wake = 0
    /\ late = FALSE
    /\ tickAt = now
    /\ everIds = Ids(tasks)
    /\ popups = 0
    /\ held = 0
    /\ log = <<>>
    /\ failed = FALSE

\* the store after the loop body of alarm_checker has run for row r without
\* an exception: the recurrence test, compute_next_date, the duplicate count
\* and the INSERT
AfterRow(S, r) ==
    LET next_date == SuccessorDate(r)
    IN  IF next_date \in {None, ValueError} THEN S
        ELSE IF DupCount(S, r.title, next_date, r.time, r.recurrence) = 0
        THEN InsertSuccessor(S, r, SuccessorRow(S, r, next_date))
        ELSE S

\* for m in matches: ...
RECURSIVE AfterRows(_, _)
AfterRows(S, rows) ==
    IF rows = <<>> THEN S
    ELSE AfterRows(AfterRow(S, Head(rows)), Tail(rows))

\* the due minutes after the one of the latest tick that fetched a row
DueLater == {DueText(r) : r \in tasks} \ {t \in {DueText(r) : r \in tasks} :
                                             TextLeq(t, key)}

\* the tick of alarm_checker in the next minute in which a task is due, from
\* the clock reading to the commit of the last successor
DueMinuteTick ==
    /\ pc = "sleep"
    /\ Len(log) < MaxAlarms
    /\ DueLater # {}
    /\ key' = CHOOSE t \in DueLater : \A u \in DueLater : TextLeq(t, u)
    /\ LET rows == FetchAll(DueQuery(tasks, key'))
       IN  /\ tasks' = AfterRows(tasks, rows)
           /\ log' = log \o [j \in 1..Len(rows) |->
                               [Fired(rows[j], key', now) EXCEPT !.done = TRUE]]
           /\ popups' = popups + Len(rows)
    /\ disk' = tasks'
    /\ everIds' = everIds \cup Ids(tasks')
    /\ UNCHANGED <<variant, held, autoinc, fgvars, now, pc, matches, m, count,
                   handled, i, wake, late, tickAt, failed, datevars>>

SpecSeries == InitSeries /\ [][DueMinuteTick]_vars

----------------------------------------------------------------------------
(* C28: in raining2.py, with nothing deleted or edited and a tick without  *)
(* errors in every due minute, the k-th alarm of a daily (weekly) series   *)
(* that starts on D is emitted in the due minute of D + (k-1) days         *)
(* (D + 7(k-1) days), for a task that is itself recurring, and for each of *)
(* these days and the next one exactly one task of the series is stored.   *)

\* the tasks of the series due n periods after its start
SeriesDue(n) ==
    {r \in tasks : /\ r.title = "hw"
                   /\ r.date = AddDays(dIn, n * RuleDays(dRec))
                   /\ r.time = <<23, 59>>}

C28_SeriesKeepsGoing ==
    /\ \A k \in 1..Len(log) :
          /\ log[k].m.date = AddDays(dIn, (k - 1) * RuleDays(dRec))
          /\ log[k].key = log[k].m.date \o <<23, 59>>
          /\ log[k].m.recurrence = dRec
    /\ Len(log) >= 1 =>
          \A n \in 0..Len(log) :
              /\ Cardinality(SeriesDue(n)) = 1
              /\ \A r \in SeriesDue(n) : r.recurrence = dRec /\ r.completed = 0

C28_Witness ==
    /\ Len(log) = 3
    /\ dRec = "weekly"
    /\ dIn = <<2024, 12, 28>>
    /\ log[3].m.date = <<2025, 1, 11>>
    /\ Cardinality(tasks) = 4

----------------------------------------------------------------------------
(* C29: in hyper5.py a tick opens its connection only when the alarm       *)
(* thread holds none, the one of the tick before having been closed, and   *)
(* the thread never holds more than one open connection.                   *)
C29_Original ==
    /\ [][(variant = "hyper5" /\ pc = "connect" /\ pc' = "query") =>
            held = 0]_vars
    /\ [](variant = "hyper5" => held <= 1)

====
